---- MODULE Spec2Model ----
(***************************************************************************)
(* Model of homework.py, the fitness tracker module: the Training class    *)
(* hierarchy (Training, Running, SportsWalking, Swimming), InfoMessage,    *)
(* read_package, main and the driver loop under `if __name__ == ...`.      *)
(*                                                                         *)
(* Python values are records [k, n, d, msg]: k is the Python type ("int",  *)
(* "float", "str") or the name of the exception the evaluation raised      *)
(* (msg is then what the exception's text names), and n/d is the numeric   *)
(* value as a reduced fraction with d > 0.  A float is                     *)
(* carried as the exact rational it denotes, so the rounding of IEEE-754   *)
(* doubles is abstracted away (a value printed with three decimals is the  *)
(* exact value rounded); the contents of a str are abstracted to the fact  *)
(* that it is a str.  Text is a sequence of Unicode code points.           *)
(***************************************************************************)
EXTENDS Integers, Sequences, FiniteSets, TLC

VARIABLES packages, i, pc, training, info, reports, stdout, err, ret

vars == <<packages, i, pc, training, info, reports, stdout, err, ret>>

-----------------------------------------------------------------------------
(* Python numbers and the arithmetic operators the module uses *)

Abs(x) == IF x < 0 THEN -x ELSE x

RECURSIVE GCD(_, _)
GCD(a, b) == IF b = 0 THEN a ELSE GCD(b, a % b)

Norm(k, n, d) ==
    LET g == GCD(Abs(n), Abs(d))
        s == IF d < 0 THEN -1 ELSE 1
    IN  [k |-> k, n |-> s * (n \div g), d |-> s * (d \div g), msg |-> <<>>]

PyInt(n) == [k |-> "int", n |-> n, d |-> 1, msg |-> <<>>]
PyFloat(n, d) == Norm("float", n, d)
Str == [k |-> "str", n |-> 0, d |-> 1, msg |-> <<>>]
RaiseMsg(e, m) == [k |-> e, n |-> 0, d |-> 1, msg |-> m]
Raise(e) == RaiseMsg(e, <<>>)

IsNum(v) == v.k \in {"int", "float"}
Exceptions ==
    {"KeyError", "TypeError", "ValueError", "ZeroDivisionError",
     "NotImplementedError"}
IsExc(v) == v.k \in Exceptions
NumKind(a, b) == IF a.k = "int" /\ b.k = "int" THEN "int" ELSE "float"

\* a * b: int * str repeats the str, float * str is a TypeError
PyMul(a, b) ==
    IF IsExc(a) THEN a
    ELSE IF IsExc(b) THEN b
    ELSE IF IsNum(a) /\ IsNum(b) THEN Norm(NumKind(a, b), a.n * b.n, a.d * b.d)
    ELSE IF (a.k = "str" /\ b.k = "int") \/ (a.k = "int" /\ b.k = "str") THEN Str
    ELSE Raise("TypeError")

\* a / b: true division, always a float
PyDiv(a, b) ==
    IF IsExc(a) THEN a
    ELSE IF IsExc(b) THEN b
    ELSE IF ~(IsNum(a) /\ IsNum(b)) THEN Raise("TypeError")
    ELSE IF b.n = 0 THEN Raise("ZeroDivisionError")
    ELSE Norm("float", a.n * b.d, a.d * b.n)

\* a // b: the quotient rounded toward negative infinity
PyFloorDiv(a, b) ==
    IF IsExc(a) THEN a
    ELSE IF IsExc(b) THEN b
    ELSE IF ~(IsNum(a) /\ IsNum(b)) THEN Raise("TypeError")
    ELSE IF b.n = 0 THEN Raise("ZeroDivisionError")
    ELSE LET q == Norm("float", a.n * b.d, a.d * b.n)
         IN  [k |-> NumKind(a, b), n |-> q.n \div q.d, d |-> 1, msg |-> <<>>]

PyAdd(a, b) ==
    IF IsExc(a) THEN a
    ELSE IF IsExc(b) THEN b
    ELSE IF IsNum(a) /\ IsNum(b)
         THEN Norm(NumKind(a, b), a.n * b.d + b.n * a.d, a.d * b.d)
    ELSE IF a.k = "str" /\ b.k = "str" THEN Str
    ELSE Raise("TypeError")

PySub(a, b) ==
    IF IsExc(a) THEN a
    ELSE IF IsExc(b) THEN b
    ELSE IF IsNum(a) /\ IsNum(b)
         THEN Norm(NumKind(a, b), a.n * b.d - b.n * a.d, a.d * b.d)
    ELSE Raise("TypeError")

\* a ** 2
PySquare(a) ==
    IF IsExc(a) THEN a
    ELSE IF IsNum(a) THEN Norm(a.k, a.n * a.n, a.d * a.d)
    ELSE Raise("TypeError")

-----------------------------------------------------------------------------
(* class Training and its subclasses.  A method is an operator from self   *)
(* to [self, ret]: the object after the call and the value returned (or    *)
(* the exception raised).  Where a method calls another, m_of is the rest  *)
(* of m's body, given what the call returned.                              *)

Training_LEN_STEP == PyFloat(65, 100)
M_IN_KM == PyInt(1000)
MINUTES_IN_HOUR == PyInt(60)
RATE_CALORIE == PyInt(18)
CORRECT_CALORIE == PyInt(20)
RATE_WEIGHT == PyFloat(35, 1000)
FACTOR_WALK == PyFloat(29, 1000)
Swimming_LEN_STEP == PyFloat(138, 100)
CORRECT_SPEED == PyFloat(11, 10)
FACTOR_SPEED == PyInt(2)

Return(self, v) == [self |-> self, ret |-> v]

\* the class attribute LEN_STEP as self.LEN_STEP finds it
LEN_STEP(self) ==
    IF self.cls = "Swimming" THEN Swimming_LEN_STEP ELSE Training_LEN_STEP

Training_init(cls, args) ==
    [cls |-> cls, action |-> args[1], duration |-> args[2], weight |-> args[3]]

SportsWalking_init(cls, args) ==
    [cls |-> cls, action |-> args[1], duration |-> args[2], weight |-> args[3],
     height |-> args[4]]

\* Swimming.__init__ with its last two parameters stored the wrong way round
Swimming_init_swapped(cls, args) ==
    [cls |-> cls, action |-> args[1], duration |-> args[2], weight |-> args[3],
     length_pool |-> args[5], count_pool |-> args[4]]

Swimming_init(cls, args) ==
    [cls |-> cls, action |-> args[1], duration |-> args[2], weight |-> args[3],
     length_pool |-> args[4], count_pool |-> args[5]]

\* the number of positional parameters of cls.__init__ besides self
Arity(cls) ==
    IF cls = "Swimming" THEN 5 ELSE IF cls = "SportsWalking" THEN 4 ELSE 3

None == [cls |-> "None"]

\* cls(*args) that also refuses an argument of the wrong type
New_typechecked(cls, args) ==
    IF Len(args) # Arity(cls) \/ \E k \in 1..Len(args) : ~IsNum(args[k])
    THEN Return(None, Raise("TypeError"))
    ELSE IF cls = "Swimming" THEN Return(Swimming_init(cls, args), PyInt(0))
    ELSE IF cls = "SportsWalking" THEN Return(SportsWalking_init(cls, args), PyInt(0))
    ELSE Return(Training_init(cls, args), PyInt(0))

\* cls(*args): a call with the wrong number of arguments is a TypeError
New(cls, args) ==
    IF Len(args) # Arity(cls) THEN Return(None, Raise("TypeError"))
    ELSE IF cls = "Swimming" THEN Return(Swimming_init(cls, args), PyInt(0))
    ELSE IF cls = "SportsWalking" THEN Return(SportsWalking_init(cls, args), PyInt(0))
    ELSE Return(Training_init(cls, args), PyInt(0))

Training_get_distance(self) ==
    Return(self, PyDiv(PyMul(self.action, LEN_STEP(self)), M_IN_KM))

Swimming_get_distance(self) ==
    Return(self, PyDiv(PyMul(self.action, LEN_STEP(self)), M_IN_KM))

get_distance(self) ==
    IF self.cls = "Swimming" THEN Swimming_get_distance(self)
    ELSE Training_get_distance(self)

Training_get_mean_speed_of(dist) ==
    Return(dist.self, PyDiv(dist.ret, dist.self.duration))

\* get_mean_speed that turns self.duration into minutes in place
Training_get_mean_speed_in_place(self) ==
    Return([self EXCEPT !.duration = PyMul(@, MINUTES_IN_HOUR)],
           Training_get_mean_speed_of(get_distance(self)).ret)

\* get_mean_speed that answers 0.0 for a duration of zero
Training_get_mean_speed_guarded(self) ==
    IF IsNum(self.duration) /\ self.duration.n = 0
    THEN Return(self, PyFloat(0, 1))
    ELSE Training_get_mean_speed_of(get_distance(self))

Training_get_mean_speed(self) ==
    Training_get_mean_speed_of(get_distance(self))

\* Swimming without its own get_mean_speed: the inherited one
Swimming_get_mean_speed_inherited(self) ==
    Training_get_mean_speed_of(get_distance(self))

Swimming_get_mean_speed(self) ==
    Return(self, PyDiv(PyDiv(PyMul(self.length_pool, self.count_pool), M_IN_KM),
                       self.duration))

get_mean_speed(self) ==
    IF self.cls = "Swimming" THEN Swimming_get_mean_speed(self)
    ELSE Training_get_mean_speed(self)

Training_get_spent_calories(self) ==
    Return(self, RaiseMsg("NotImplementedError", <<self.cls>>))

\* Running without its own get_spent_calories: the inherited one
Running_get_spent_calories_inherited(self) ==
    Return(self, RaiseMsg("NotImplementedError", <<self.cls>>))

Running_get_spent_calories_of(speed) ==
    Return(speed.self,
           PyMul(PyMul(PyDiv(PyMul(PySub(PyMul(RATE_CALORIE, speed.ret),
                                         CORRECT_CALORIE),
                                   speed.self.weight),
                             M_IN_KM),
                       speed.self.duration),
                 MINUTES_IN_HOUR))

\* the correction added where the source subtracts it
Running_get_spent_calories_plus(self) ==
    Return(self,
           PyMul(PyMul(PyDiv(PyMul(PyAdd(PyMul(RATE_CALORIE,
                                               get_mean_speed(self).ret),
                                         CORRECT_CALORIE),
                                   self.weight),
                             M_IN_KM),
                       self.duration),
                 MINUTES_IN_HOUR))

Running_get_spent_calories(self) ==
    Running_get_spent_calories_of(get_mean_speed(self))

\* / where the source has //
SportsWalking_get_spent_calories_truediv(self) ==
    Return(self,
           PyMul(PyMul(PyAdd(PyMul(RATE_WEIGHT, self.weight),
                             PyMul(PyMul(PyDiv(PySquare(get_mean_speed(self).ret),
                                               self.height),
                                         FACTOR_WALK),
                                   self.weight)),
                       self.duration),
                 MINUTES_IN_HOUR))

SportsWalking_get_spent_calories_of(self, speed) ==
    Return(speed.self,
           PyMul(PyMul(PyAdd(PyMul(RATE_WEIGHT, self.weight),
                             PyMul(PyMul(PyFloorDiv(PySquare(speed.ret),
                                                    speed.self.height),
                                         FACTOR_WALK),
                                   speed.self.weight)),
                       speed.self.duration),
                 MINUTES_IN_HOUR))

SportsWalking_get_spent_calories(self) ==
    SportsWalking_get_spent_calories_of(self, get_mean_speed(self))

Swimming_get_spent_calories_of(speed) ==
    Return(speed.self,
           PyMul(PyMul(PyAdd(speed.ret, CORRECT_SPEED), FACTOR_SPEED),
                 speed.self.weight))

Swimming_get_spent_calories(self) ==
    Swimming_get_spent_calories_of(get_mean_speed(self))

get_spent_calories(self) ==
    IF self.cls = "Running" THEN Running_get_spent_calories(self)
    ELSE IF self.cls = "SportsWalking" THEN SportsWalking_get_spent_calories(self)
    ELSE IF self.cls = "Swimming" THEN Swimming_get_spent_calories(self)
    ELSE Training_get_spent_calories(self)

-----------------------------------------------------------------------------
(* class InfoMessage *)

InfoMessage(training_type, duration, distance, speed, calories) ==
    [k |-> "InfoMessage", training_type |-> training_type,
     duration |-> duration, distance |-> distance, speed |-> speed,
     calories |-> calories]

\* the InfoMessage of the three results, or the first exception among them
Training_show_training_info_of(self, dist, speed, cal) ==
    IF IsExc(dist.ret) THEN dist
    ELSE IF IsExc(speed.ret) THEN speed
    ELSE IF IsExc(cal.ret) THEN cal
    ELSE Return(cal.self,
                InfoMessage(self.cls, self.duration, dist.ret, speed.ret, cal.ret))

Training_show_training_info_calories(self, dist, speed) ==
    Training_show_training_info_of(self, dist, speed,
                                   get_spent_calories(speed.self))

Training_show_training_info_speed(self, dist) ==
    Training_show_training_info_calories(self, dist, get_mean_speed(dist.self))

Training_show_training_info(self) ==
    Training_show_training_info_speed(self, get_distance(self))

\* the code points of the text of a class name
ClassName(cls) ==
    CASE cls = "Training" -> <<84, 114, 97, 105, 110, 105, 110, 103>>
      [] cls = "Running" -> <<82, 117, 110, 110, 105, 110, 103>>
      [] cls = "SportsWalking" ->
            <<83, 112, 111, 114, 116, 115, 87, 97, 108, 107, 105, 110, 103>>
      [] cls = "Swimming" -> <<83, 119, 105, 109, 109, 105, 110, 103>>

RECURSIVE Digits(_)
Digits(n) ==
    IF n < 10 THEN <<48 + n>> ELSE Digits(n \div 10) \o <<48 + (n % 10)>>

\* a replacement field {name:.3f} on a number: three decimals, ties to even
Format3f(v) ==
    LET a == Abs(v.n)
        whole == a \div v.d
        t == (a % v.d) * 1000
        f0 == t \div v.d
        rest == t % v.d
        up == (2 * rest > v.d) \/ (2 * rest = v.d /\ f0 % 2 = 1)
        f1 == IF up THEN f0 + 1 ELSE f0
        w == IF f1 = 1000 THEN whole + 1 ELSE whole
        f == IF f1 = 1000 THEN 0 ELSE f1
    IN  (IF v.n < 0 THEN <<45>> ELSE <<>>) \o Digits(w) \o <<46>>
        \o <<48 + (f \div 100), 48 + ((f \div 10) % 10), 48 + (f % 10)>>

Text(chars) == [k |-> "text", text |-> chars]

\* MESSAGE, cut at its replacement fields:
\*   'Тип тренировки: ' '; Длительность: ' ' ч.; Дистанция: '
\*   ' км; Ср. скорость: ' ' км/ч; Потрачено ккал: ' '.'
MESSAGE ==
    << <<1058, 1080, 1087, 32, 1090, 1088, 1077, 1085, 1080, 1088, 1086, 1074,
         1082, 1080, 58, 32>>,
       <<59, 32, 1044, 1083, 1080, 1090, 1077, 1083, 1100, 1085, 1086, 1089,
         1090, 1100, 58, 32>>,
       <<32, 1095, 46, 59, 32, 1044, 1080, 1089, 1090, 1072, 1085, 1094, 1080,
         1103, 58, 32>>,
       <<32, 1082, 1084, 59, 32, 1057, 1088, 46, 32, 1089, 1082, 1086, 1088,
         1086, 1089, 1090, 1100, 58, 32>>,
       <<32, 1082, 1084, 47, 1095, 59, 32, 1055, 1086, 1090, 1088, 1072, 1095,
         1077, 1085, 1086, 32, 1082, 1082, 1072, 1083, 58, 32>>,
       <<46>> >>

\* the format code f does not take a str: ValueError
get_message(self) ==
    IF \E v \in {self.duration, self.distance, self.speed, self.calories} :
           ~IsNum(v)
    THEN Return(self, Raise("ValueError"))
    ELSE Return(self,
                Text(MESSAGE[1] \o ClassName(self.training_type)
                     \o MESSAGE[2] \o Format3f(self.duration)
                     \o MESSAGE[3] \o Format3f(self.distance)
                     \o MESSAGE[4] \o Format3f(self.speed)
                     \o MESSAGE[5] \o Format3f(self.calories)
                     \o MESSAGE[6]))

-----------------------------------------------------------------------------
(* read_package *)

type_training_name ==
    [c \in {"SWM", "RUN", "WLK"} |->
        CASE c = "SWM" -> "Swimming"
          [] c = "RUN" -> "Running"
          [] c = "WLK" -> "SportsWalking"]

\* an except clause that names KeyError alone
Caught_KeyErrorOnly == {"KeyError"}

\* the exceptions the except clause of read_package catches
Caught == {"KeyError", "TypeError"}

read_package(workout_type, data) ==
    LET try == IF workout_type \notin DOMAIN type_training_name
               THEN Return(None, Raise("KeyError"))
               ELSE New(type_training_name[workout_type], data)
    IN  IF try.ret.k \in Caught
        THEN Return(None, RaiseMsg("ValueError", <<workout_type, data>>))
        ELSE try

-----------------------------------------------------------------------------
(* The packages the driver is run on *)

MaxPackages == 2

N(x) == PyInt(x)

Lists3 ==
    { <<N(15000), N(1), N(75)>>, <<N(1), N(1), N(1)>>,
      <<N(15000), N(0), N(75)>>, <<Str, N(1), N(75)>>,
      <<N(15000), Str, N(75)>>, <<Str, N(0), N(75)>>,
      <<N(15000), N(1), Str>> }

Lists4 ==
    { <<N(9000), N(1), N(75), N(180)>>, <<N(3000), PyFloat(13, 10), N(75), N(7)>>,
      <<N(9000), N(1), N(75), N(0)>>, <<N(9000), N(0), N(75), N(180)>>,
      <<N(9000), N(1), N(75), Str>>, <<N(9000), N(0), N(75), Str>>,
      <<N(9000), N(1), N(75), N(7)>>, <<N(9000), N(1), N(75), N(-7)>> }

Lists5 ==
    { <<N(720), N(1), N(80), N(25), N(40)>>, <<N(1000), N(1), N(80), N(25), N(40)>>,
      <<N(720), N(0), N(80), N(25), N(40)>>, <<N(720), N(1), N(80), Str, N(40)>> }

Mismatched ==
    { <<"XYZ", <<N(1), N(1), N(1)>> >>,
      <<"XYZ", <<N(720), N(1), N(80), N(25), N(40)>> >>,
      <<"RUN", <<N(15000), N(1)>> >>,
      <<"RUN", <<N(9000), N(1), N(75), N(180)>> >>,
      <<"WLK", <<N(15000), N(1), N(75)>> >>,
      <<"WLK", <<N(720), N(1), N(80), N(25), N(40)>> >>,
      <<"SWM", <<N(9000), N(1), N(75), N(180)>> >>,
      <<"SWM", <<N(720), N(1), N(80), N(25), N(40), N(2)>> >>,
      <<"RUN", <<>> >> }

Entries ==
    ({"RUN"} \X Lists3) \cup ({"WLK"} \X Lists4) \cup ({"SWM"} \X Lists5)
    \cup Mismatched

RECURSIVE Batches(_)
Batches(n) ==
    IF n = 0 THEN {<<>>}
    ELSE LET shorter == Batches(n - 1)
         IN  shorter \cup {Append(b, e) : b \in shorter, e \in Entries}

-----------------------------------------------------------------------------
(* The module run as a script (main and the loop over packages), and the   *)
(* module imported: an object of any of the four classes, its methods      *)
(* called in any order by a caller that catches what they raise.           *)

Classes == {"Training", "Running", "SportsWalking", "Swimming"}

ListsOf(n) == {d \in Lists3 \cup Lists4 \cup Lists5 : Len(d) = n}

Objects == UNION {{New(c, d).self : d \in ListsOf(Arity(c))} : c \in Classes}

Methods ==
    {"get_distance", "get_mean_speed", "get_spent_calories",
     "show_training_info", "get_message"}

NoErr == [k |-> "none", msg |-> <<>>, in |-> "none"]
NotCalled == [k |-> "NotCalled"]

\* the exception v as it leaves the call of function f in the script
Traceback(v, f) == [k |-> v.k, msg |-> v.msg, in |-> f]

InitScript ==
    /\ packages \in Batches(MaxPackages)
    /\ i = 1
    /\ pc = "loop"
    /\ training = None

InitImported ==
    /\ packages = <<>>
    /\ i = 1
    /\ pc = "imported"
    /\ training \in Objects

Init ==
    /\ InitScript \/ InitImported
    /\ info = None
    /\ reports = <<>>
    /\ stdout = <<>>
    /\ err = NoErr
    /\ ret = [m \in Methods |-> NotCalled]

\* a loop that catches what read_package raises and goes on to the next
\* package
ReadPackage_skipping ==
    /\ pc = "loop"
    /\ i <= Len(packages)
    /\ LET r == read_package(packages[i][1], packages[i][2])
       IN  IF IsExc(r.ret)
           THEN /\ err' = Traceback(r.ret, "read_package")
                /\ i' = i + 1
                /\ pc' = "loop"
                /\ training' = training
           ELSE /\ training' = r.self
                /\ pc' = "main"
                /\ UNCHANGED <<err, i>>
    /\ UNCHANGED <<packages, info, reports, stdout, ret>>

\* training = read_package(workout_type, data)
ReadPackage ==
    /\ pc = "loop"
    /\ i <= Len(packages)
    /\ LET r == read_package(packages[i][1], packages[i][2])
       IN  IF IsExc(r.ret)
           THEN /\ err' = Traceback(r.ret, "read_package")
                /\ pc' = "halted"
                /\ training' = training
           ELSE /\ training' = r.self
                /\ pc' = "main"
                /\ err' = err
    /\ UNCHANGED <<packages, i, info, reports, stdout, ret>>

\* main: info = training.show_training_info()
ShowTrainingInfo ==
    /\ pc = "main"
    /\ LET r == Training_show_training_info(training)
       IN  /\ training' = r.self
           /\ IF IsExc(r.ret)
              THEN /\ err' = Traceback(r.ret, "show_training_info")
                   /\ pc' = "halted"
                   /\ UNCHANGED <<info, reports>>
              ELSE /\ info' = r.ret
                   /\ reports' = Append(reports, r.ret)
                   /\ pc' = "print"
                   /\ err' = err
    /\ UNCHANGED <<packages, i, stdout, ret>>

\* main: print(info.get_message()), and on to the next package
PrintMessage ==
    /\ pc = "print"
    /\ LET r == get_message(info)
       IN  /\ info' = r.self
           /\ IF IsExc(r.ret)
              THEN /\ err' = Traceback(r.ret, "get_message")
                   /\ pc' = "halted"
                   /\ UNCHANGED <<stdout, i>>
              ELSE /\ stdout' = Append(stdout, r.ret.text)
                   /\ i' = i + 1
                   /\ pc' = "loop"
                   /\ err' = err
    /\ UNCHANGED <<packages, training, reports, ret>>

\* the loop has run through packages
Finish ==
    /\ pc = "loop"
    /\ i > Len(packages)
    /\ pc' = "done"
    /\ UNCHANGED <<packages, i, training, info, reports, stdout, err, ret>>

\* a call of method m returned (or raised) r.ret and left the object r.self
Called(m, r) ==
    /\ training' = r.self
    /\ ret' = [ret EXCEPT ![m] = r.ret]

CallGetDistance ==
    /\ pc = "imported"
    /\ Called("get_distance", get_distance(training))
    /\ UNCHANGED <<packages, i, pc, info, reports, stdout, err>>

CallGetMeanSpeed ==
    /\ pc = "imported"
    /\ Called("get_mean_speed", get_mean_speed(training))
    /\ UNCHANGED <<packages, i, pc, info, reports, stdout, err>>

CallGetSpentCalories ==
    /\ pc = "imported"
    /\ Called("get_spent_calories", get_spent_calories(training))
    /\ UNCHANGED <<packages, i, pc, info, reports, stdout, err>>

CallShowTrainingInfo ==
    /\ pc = "imported"
    /\ LET r == Training_show_training_info(training)
       IN  /\ Called("show_training_info", r)
           /\ IF IsExc(r.ret)
              THEN UNCHANGED <<info, reports>>
              ELSE /\ info' = r.ret
                   /\ reports' = <<r.ret>>
    /\ UNCHANGED <<packages, i, pc, stdout, err>>

CallGetMessage ==
    /\ pc = "imported"
    /\ info # None
    /\ LET r == get_message(info)
       IN  /\ info' = r.self
           /\ ret' = [ret EXCEPT !["get_message"] = r.ret]
    /\ UNCHANGED <<packages, i, pc, training, reports, stdout, err>>

Next ==
    \/ ReadPackage
    \/ ShowTrainingInfo
    \/ PrintMessage
    \/ Finish
    \/ CallGetDistance
    \/ CallGetMeanSpeed
    \/ CallGetSpentCalories
    \/ CallShowTrainingInfo
    \/ CallGetMessage

Spec == Init /\ [][Next]_vars

-----------------------------------------------------------------------------
(* What the properties below speak of *)

Code(j) == packages[j][1]
Data(j) == packages[j][2]

\* the script is at package i: read_package has been called on it
AtPackage == pc \in {"main", "print", "halted"}
Script == pc \in {"loop", "main", "print", "halted", "done"}

Recognised(c) == c \in {"SWM", "RUN", "WLK"}

Variant(c) ==
    CASE c = "SWM" -> "Swimming" [] c = "RUN" -> "Running"
      [] c = "WLK" -> "SportsWalking"

FieldCount(c) == CASE c = "SWM" -> 5 [] c = "RUN" -> 3 [] c = "WLK" -> 4

WellFormed(j) == Recognised(Code(j)) /\ Len(Data(j)) = FieldCount(Code(j))

\* the record the parameters d make, bound in order to the variant's fields
Bound(c, d) ==
    CASE c = "RUN" ->
           [cls |-> "Running", action |-> d[1], duration |-> d[2],
            weight |-> d[3]]
      [] c = "WLK" ->
           [cls |-> "SportsWalking", action |-> d[1], duration |-> d[2],
            weight |-> d[3], height |-> d[4]]
      [] c = "SWM" ->
           [cls |-> "Swimming", action |-> d[1], duration |-> d[2],
            weight |-> d[3], length_pool |-> d[4], count_pool |-> d[5]]

\* the fraction n/d in lowest terms, d > 0
Frac(n, d) ==
    LET g == GCD(Abs(n), Abs(d))
        sg == IF d < 0 THEN -1 ELSE 1
    IN  <<sg * (n \div g), sg * (d \div g)>>

ValueOf(v) == <<v.n, v.d>>

EndsWith(s, t) ==
    Len(s) >= Len(t) /\ SubSeq(s, Len(s) - Len(t) + 1, Len(s)) = t

-----------------------------------------------------------------------------
(* C1: for every recognised code and every parameter list of the matching  *)
(* length, read_package raises nothing and returns a record of the mapped  *)
(* variant (SWM Swimming, RUN Running, WLK SportsWalking) whose fields are *)
(* the parameters in order.                                                *)
C1_ReadPackageBinds ==
    (AtPackage /\ WellFormed(i)) =>
        /\ err.in # "read_package"
        /\ training = Bound(Code(i), Data(i))
        /\ training.cls = Variant(Code(i))

\* read_package("WLK", [9000, 1, 75, 180]) has returned a SportsWalking
\* record with height 180
C1_Witness ==
    /\ pc = "main"
    /\ packages[i] = <<"WLK", <<N(9000), N(1), N(75), N(180)>> >>
    /\ training.cls = "SportsWalking"
    /\ training.height = N(180)

-----------------------------------------------------------------------------
Malformed(j) ==
    ~Recognised(Code(j)) \/ Len(Data(j)) # FieldCount(Code(j))

(* C2: on a code that is not SWM, RUN or WLK, and on a recognised code     *)
(* with a parameter list of the wrong length, read_package raises the one  *)
(* ValueError that carries the code and the list, never the KeyError or    *)
(* TypeError underneath, and returns no record: nothing is assigned,       *)
(* reported or printed.                                                    *)
C2_UniformError ==
    [][ (pc = "loop" /\ i <= Len(packages) /\ Malformed(i)) =>
            /\ pc' = "halted"
            /\ err' = [k |-> "ValueError", msg |-> <<Code(i), Data(i)>>,
                       in |-> "read_package"]
            /\ UNCHANGED <<training, info, reports, stdout>> ]_vars

\* read_package has raised ValueError on a recognised code whose list has
\* the wrong length
C2_Witness ==
    /\ pc = "halted"
    /\ Recognised(Code(i))
    /\ Len(Data(i)) # FieldCount(Code(i))
    /\ err.k = "ValueError"
    /\ err.msg = <<Code(i), Data(i)>>

-----------------------------------------------------------------------------
\* a recognised code and a list of the right length with a str in it
Mistyped(j) ==
    WellFormed(j) /\ \E k \in 1..Len(Data(j)) : Data(j)[k].k = "str"

(* C3 as stated: on a recognised code and a list of the right length with  *)
(* an element of the wrong type, the call of read_package itself raises    *)
(* the ValueError and returns no record.                                   *)
C3_AsStated ==
    (AtPackage /\ Mistyped(i)) =>
        pc = "halted" /\ err.k = "ValueError" /\ err.in = "read_package"

(* C3 amended: on such a list read_package raises nothing and returns the  *)
(* record with the elements bound as they are; the str is met only when    *)
(* the record is reported, where show_training_info raises the TypeError   *)
(* of the arithmetic (or the ZeroDivisionError of a zero divisor met       *)
(* first), never the ValueError, and no report is made.                    *)
C3_Amended ==
    (AtPackage /\ Mistyped(i)) =>
        /\ err.in # "read_package"
        /\ training = Bound(Code(i), Data(i))
        /\ pc # "print"
        /\ Len(reports) = i - 1
        /\ pc = "halted" =>
              /\ err.in = "show_training_info"
              /\ err.k \in {"TypeError", "ZeroDivisionError"}

\* reporting a record that read_package made of a list with a str in it
\* has raised TypeError
C3_Witness ==
    /\ pc = "halted"
    /\ Mistyped(i)
    /\ err.k = "TypeError"
    /\ err.in = "show_training_info"

-----------------------------------------------------------------------------
C4_Order ==
    Script =>
        /\ Len(stdout) = i - 1
        /\ \A j \in 1..Len(stdout) :
              /\ stdout[j] = get_message(reports[j]).ret.text
              /\ reports[j].training_type = Variant(Code(j))
              /\ reports[j].duration = Data(j)[2]
        /\ pc = "halted" => i <= Len(packages) /\ ~ENABLED Next
        /\ pc = "done" => Len(stdout) = Len(packages)

C4_Step ==
    Script =>
        /\ pc # "halted"
        /\ pc = "loop" => pc' \in {"main", "halted", "done"}
        /\ pc = "main" => pc' \in {"print", "halted"}
        /\ pc = "print" => pc' \in {"loop", "halted"}
        /\ IF pc = "print" /\ pc' = "loop"
           THEN /\ i' = i + 1
                /\ Len(stdout') = Len(stdout) + 1
                /\ SubSeq(stdout', 1, Len(stdout)) = stdout
           ELSE UNCHANGED <<i, stdout>>

(* C4: the driver takes the packages in input order, one at a time         *)
(* (read_package, then show_training_info, then print), and writes one     *)
(* line for each package it has processed, in input order; nothing is      *)
(* caught, so at the first package whose dispatch or report raises the run *)
(* halts with the lines of the earlier packages written and no line for    *)
(* that package or a later one, ever.                                      *)
C4_BatchHaltsAtFirstError == []C4_Order /\ [][C4_Step]_vars

\* the run has halted at its second package with the first one's line
\* written
C4_Witness ==
    /\ pc = "halted"
    /\ i = 2
    /\ Len(packages) >= 2
    /\ Len(stdout) = 1

-----------------------------------------------------------------------------
\* 'Потрачено ккал: 699.750.'
CaloriesSuffix ==
    <<1055, 1086, 1090, 1088, 1072, 1095, 1077, 1085, 1086, 32, 1082, 1082,
      1072, 1083, 58, 32, 54, 57, 57, 46, 55, 53, 48, 46>>

\* 'Calories burned: 699.750.'
CaloriesBurnedSuffix ==
    <<67, 97, 108, 111, 114, 105, 101, 115, 32, 98, 117, 114, 110, 101, 100,
      58, 32, 54, 57, 57, 46, 55, 53, 48, 46>>

\* (18 * meanSpeed - 20) * weight / 1000 * duration * 60 with
\* meanSpeed = (action * 0.65 / 1000) / duration, as one fraction of
\* action = a, duration = p/q and weight = w/v
RunningCalories(a, p, q, w, v) ==
    Frac((117 * a * q - 200000 * p) * w * 3, 500000 * v * q)

RunningFigures(j, suffix) ==
    /\ Code(j) = "RUN" =>
          LET d == Data(j)
          IN  ValueOf(reports[j].calories)
                = RunningCalories(d[1].n, d[2].n, d[2].d, d[3].n, d[3].d)
    /\ packages[j] = <<"RUN", <<N(15000), N(1), N(75)>> >> =>
          /\ ValueOf(reports[j].distance) = <<39, 4>>
          /\ ValueOf(reports[j].speed) = <<39, 4>>
          /\ ValueOf(reports[j].calories) = <<2799, 4>>
          /\ j <= Len(stdout) => EndsWith(stdout[j], suffix)

(* C5 as stated: reporting on read_package("RUN", [15000, 1, 75]) gives    *)
(* distance 9.75, mean speed 9.75 and calories 699.75, and the message     *)
(* ends with "Calories burned: 699.750."; the calories of any Running      *)
(* record are (18*meanSpeed - 20)*weight/1000*duration*60.                 *)
C5_AsStated == \A j \in 1..Len(reports) : Script => RunningFigures(j, CaloriesBurnedSuffix)

(* C5 amended: the same figures, and the message ends with the text of the *)
(* source's template, 'Потрачено ккал: 699.750.'                           *)
C5_Amended == \A j \in 1..Len(reports) : Script => RunningFigures(j, CaloriesSuffix)

\* the line of ("RUN", [15000, 1, 75]) has been printed
C5_Witness ==
    /\ Script
    /\ \E j \in 1..Len(stdout) :
          /\ packages[j] = <<"RUN", <<N(15000), N(1), N(75)>> >>
          /\ EndsWith(stdout[j], CaloriesSuffix)

-----------------------------------------------------------------------------
\* the agreement of two Swimming parameter lists on duration, lengthPool
\* and countPool
SamePool(d, e) == d[2] = e[2] /\ d[4] = e[4] /\ d[5] = e[5]

-----------------------------------------------------------------------------
\* floor(x) of the fraction x = n/d, d of either sign
Floor(n, d) == IF d < 0 THEN (-n) \div (-d) ELSE n \div d

\* (0.035*weight + fl*0.029*weight)*duration*60 as one fraction of
\* duration = p/q and weight = w/v
WalkingCalories(fl, p, q, w, v) == Frac(w * (35 + 29 * fl) * p * 3, 50 * v * q)

(* C7: the calories of a SportsWalking record are                          *)
(* (0.035*weight + floor(meanSpeed^2 / height)*0.029*weight)*duration*60,  *)
(* the quotient rounded toward negative infinity before it is multiplied;  *)
(* so with meanSpeed^2 < height (meanSpeed 1.5, height 7) the speed term   *)
(* is 0 and the calories are 0.035*weight*duration*60.                     *)
C7_WalkingFloorsQuotient ==
    \A j \in 1..Len(reports) :
        (Script /\ Code(j) = "WLK") =>
            LET d == Data(j)
                r == reports[j]
                sq == <<r.speed.n * r.speed.n, r.speed.d * r.speed.d>>
                fl == Floor(sq[1] * d[4].d, sq[2] * d[4].n)
            IN  /\ ValueOf(r.speed)
                     = Frac(13 * d[1].n * d[2].d, 20000 * d[1].d * d[2].n)
                /\ ValueOf(r.calories)
                     = WalkingCalories(fl, d[2].n, d[2].d, d[3].n, d[3].d)
                /\ (d[4].n > 0 /\ sq[1] * d[4].d < sq[2] * d[4].n) =>
                      ValueOf(r.calories)
                        = Frac(35 * d[3].n * d[2].n * 60,
                               1000 * d[3].d * d[2].d)

\* reported: a record with meanSpeed 1.5 and height 7, where the quotient
\* floors to 0, and one where it is 4.88... and floors to 4
C7_Witness ==
    /\ Script
    /\ Len(reports) = 2
    /\ packages[1] = <<"WLK", <<N(3000), PyFloat(13, 10), N(75), N(7)>> >>
    /\ ValueOf(reports[1].speed) = <<3, 2>>
    /\ ValueOf(reports[1].calories) = <<819, 4>>
    /\ packages[2] = <<"WLK", <<N(9000), N(1), N(75), N(7)>> >>
    /\ ValueOf(reports[2].calories) = <<1359, 2>>

-----------------------------------------------------------------------------
Concrete == {"Running", "SportsWalking", "Swimming"}

(* C8: NotImplementedError is raised exactly when get_spent_calories is    *)
(* invoked on a record of the base class Training, it names that class,    *)
(* and reporting on such a record makes no report; no record that          *)
(* read_package returns is of the base class, so reporting in the script   *)
(* never raises it.                                                        *)
C8_NotImplementedOnlyOnBase ==
    /\ pc = "imported" =>
          /\ ret["get_spent_calories"] # NotCalled =>
                /\ ret["get_spent_calories"].k = "NotImplementedError"
                      <=> training.cls = "Training"
                /\ training.cls = "Training" =>
                      ret["get_spent_calories"].msg = <<"Training">>
          /\ \A m \in {"get_distance", "get_mean_speed", "get_message"} :
                ret[m].k # "NotImplementedError"
          /\ ret["show_training_info"].k = "NotImplementedError" =>
                training.cls = "Training"
          /\ training.cls = "Training" =>
                /\ info = None
                /\ reports = <<>>
                /\ ret["show_training_info"] # NotCalled =>
                      IsExc(ret["show_training_info"])
    /\ Script =>
          /\ training.cls \in Concrete \cup {"None"}
          /\ AtPackage /\ err.in # "read_package" => training.cls \in Concrete
          /\ err.k # "NotImplementedError"

\* get_spent_calories and show_training_info have both been called on a
\* Training record and raised NotImplementedError
C8_Witness ==
    /\ pc = "imported"
    /\ training.cls = "Training"
    /\ ret["get_spent_calories"] = RaiseMsg("NotImplementedError", <<"Training">>)
    /\ ret["show_training_info"].k = "NotImplementedError"

-----------------------------------------------------------------------------
C9_Report ==
    (pc \in {"print", "imported"} /\ info # None) =>
        /\ info.training_type = training.cls
        /\ info.duration = training.duration
        /\ pc = "imported" =>
              /\ ret["get_distance"] # NotCalled =>
                    info.distance = ret["get_distance"]
              /\ ret["get_mean_speed"] # NotCalled =>
                    info.speed = ret["get_mean_speed"]
              /\ ret["get_spent_calories"] # NotCalled =>
                    info.calories = ret["get_spent_calories"]
              /\ ret["show_training_info"] = info

C9_Step ==
    /\ pc \in {"main", "print", "imported"} => training' = training
    /\ (pc \in {"print", "imported"} /\ info # None) => info' = info
    /\ \A m \in Methods : ret[m] # NotCalled => ret'[m] = ret[m]

(* C9: a record is never modified after its construction: over any         *)
(* sequence of calls of get_distance, get_mean_speed, get_spent_calories,  *)
(* show_training_info and get_message every field keeps its value and each *)
(* operation returns what it returned before; the report holds the class   *)
(* name, the duration and the three results as they are when it is built.  *)
C9_RecordImmutable == []C9_Report /\ [][C9_Step]_vars

\* every method has been called on a record and a report has been built
C9_Witness ==
    /\ pc = "imported"
    /\ info # None
    /\ \A m \in Methods : ret[m] # NotCalled

-----------------------------------------------------------------------------
\* a recognised code and a list of numbers of the right length whose
\* duration is 0 or, for WLK, whose height is 0
ZeroDivisor(j) ==
    /\ WellFormed(j)
    /\ \A k \in 1..Len(Data(j)) : IsNum(Data(j)[k])
    /\ Data(j)[2].n = 0 \/ (Code(j) = "WLK" /\ Data(j)[4].n = 0)

(* C10: read_package checks the code and the number of parameters, never   *)
(* the values: on a recognised code and a list of the right length with    *)
(* duration 0 (or, for WLK, height 0) it returns the record without error; *)
(* the failure comes when the record is reported, as a ZeroDivisionError,  *)
(* not a ValueError or NotImplementedError; no report is made and the      *)
(* script halts.                                                           *)
C10_ZeroDivisorFailsAtReport ==
    (AtPackage /\ ZeroDivisor(i)) =>
        /\ err.in # "read_package"
        /\ training = Bound(Code(i), Data(i))
        /\ pc # "print"
        /\ Len(reports) = i - 1
        /\ pc = "halted" =>
              /\ err = [k |-> "ZeroDivisionError", msg |-> <<>>,
                        in |-> "show_training_info"]
              /\ Len(stdout) = i - 1
              /\ ~ENABLED Next

\* reporting the record of a WLK package with height 0 and a duration that
\* is not 0 has raised ZeroDivisionError
C10_Witness ==
    /\ pc = "halted"
    /\ ZeroDivisor(i)
    /\ Code(i) = "WLK"
    /\ Data(i)[4].n = 0
    /\ Data(i)[2].n # 0
    /\ err.k = "ZeroDivisionError"
    /\ training.height = N(0)

====
